---- MODULE Spec2Model ----
(***************************************************************************)
(* A model of KCSD2D (src/KCSD2D.py): the 2D kernel Current Source Density *)
(* estimator, its construction pipeline, its reconstruction (values), its  *)
(* lookup (generated_potential) and its leave-one-out cross-validation.    *)
(*                                                                         *)
(* Real numbers are exact rationals <<n, d>> (d > 0, lowest terms).  The   *)
(* geometry used by the model is chosen so that every Euclidean distance   *)
(* the code computes is rational, hence sqrt is exact.                     *)
(***************************************************************************)
EXTENDS Integers, Sequences, FiniteSets, TLC

VARIABLES self, handed, ret

vars == <<self, handed, ret>>

(***************************************************************************)
(* Exact rational arithmetic (the model of Python/numpy floats).           *)
(***************************************************************************)
Abs(x) == IF x < 0 THEN -x ELSE x

RECURSIVE GCD(_, _)
GCD(a, b) == IF b = 0 THEN a ELSE GCD(b, a % b)

Q(n, d) ==
    LET g == GCD(Abs(n), Abs(d))
        s == IF d < 0 THEN -1 ELSE 1
    IN  <<(s * n) \div g, (s * d) \div g>>

QI(n) == <<n, 1>>
Zero == <<0, 1>>
QAdd(a, b) == Q(a[1] * b[2] + b[1] * a[2], a[2] * b[2])
QSub(a, b) == Q(a[1] * b[2] - b[1] * a[2], a[2] * b[2])
QMul(a, b) == Q(a[1] * b[1], a[2] * b[2])
QDiv(a, b) == Q(a[1] * b[2], a[2] * b[1])
QNeg(a) == <<-a[1], a[2]>>
QAbs(a) == <<Abs(a[1]), a[2]>>
QLt(a, b) == a[1] * b[2] < b[1] * a[2]
QLe(a, b) == a[1] * b[2] <= b[1] * a[2]
QMin(a, b) == IF QLe(a, b) THEN a ELSE b
QMax(a, b) == IF QLe(a, b) THEN b ELSE a

RECURSIVE QSum(_)
QSum(s) == IF s = <<>> THEN Zero ELSE QAdd(s[1], QSum(Tail(s)))

RECURSIVE QMinSeq(_)
QMinSeq(s) == IF Len(s) = 1 THEN s[1] ELSE QMin(s[1], QMinSeq(Tail(s)))

RECURSIVE QMaxSeq(_)
QMaxSeq(s) == IF Len(s) = 1 THEN s[1] ELSE QMax(s[1], QMaxSeq(Tail(s)))

\* floor(sqrt(n)) by bisection on lo..hi (lo*lo <= n < (hi+1)*(hi+1))
RECURSIVE ISqrtIn(_, _, _)
ISqrtIn(n, lo, hi) ==
    IF lo = hi THEN lo
    ELSE LET mid == (lo + hi + 1) \div 2
         IN  IF mid * mid <= n THEN ISqrtIn(n, mid, hi) ELSE ISqrtIn(n, lo, mid - 1)

ISqrt(n) == ISqrtIn(n, 0, IF n < 46340 THEN n ELSE 46340)

\* sqrt of a rational; exact on the squares of rationals
QSqrt(a) == Q(ISqrt(a[1]), ISqrt(a[2]))

\* floor of a rational, and Python's int() (truncation towards zero)
QFloor(a) == a[1] \div a[2]
QTrunc(a) == IF a[1] >= 0 THEN a[1] \div a[2] ELSE -((-a[1]) \div a[2])

(***************************************************************************)
(* Flattening and matrices (sequences of rows).                            *)
(***************************************************************************)
RECURSIVE Flatten(_)
Flatten(m) == IF m = <<>> THEN <<>> ELSE m[1] \o Flatten(Tail(m))

NRows(m) == Len(m)
NCols(m) == IF m = <<>> THEN 0 ELSE Len(m[1])

Transpose(m) == [j \in 1..NCols(m) |-> [i \in 1..NRows(m) |-> m[i][j]]]

\* np.dot(a, b) for 2-D arrays
Dot(a, b) ==
    [i \in 1..NRows(a) |->
        [j \in 1..NCols(b) |->
            QSum([k \in 1..NCols(a) |-> QMul(a[i][k], b[k][j])])]]

\* m /= c
DivideBy(m, c) == [i \in 1..NRows(m) |-> [j \in 1..NCols(m) |-> QDiv(m[i][j], c)]]

\* np.identity(n) scaled by c, added to m:  m + c * I
PlusScaledIdentity(m, c) ==
    [i \in 1..NRows(m) |->
        [j \in 1..NCols(m) |-> IF i = j THEN QAdd(m[i][j], c) ELSE m[i][j]]]

\* m[np.ix_(rows, cols)]
Ix(m, rows, cols) == [i \in 1..Len(rows) |-> [j \in 1..Len(cols) |-> m[rows[i]][cols[j]]]]

Minor(m, r, c) ==
    [i \in 1..(Len(m) - 1) |->
        [j \in 1..(Len(m) - 1) |->
            m[IF i < r THEN i ELSE i + 1][IF j < c THEN j ELSE j + 1]]]

RECURSIVE Det(_)
Det(m) ==
    IF Len(m) = 0 THEN QI(1)
    ELSE IF Len(m) = 1 THEN m[1][1]
    ELSE QSum([j \in 1..Len(m) |->
                 LET t == QMul(m[1][j], Det(Minor(m, 1, j)))
                 IN  IF j % 2 = 1 THEN t ELSE QNeg(t)])

\* np.linalg.inv raises LinAlgError("Singular matrix") on a singular matrix
IsSingular(m) == Det(m) = Zero

\* np.linalg.inv(m) of a non-singular matrix: adjugate over determinant
Inv(m) ==
    LET d == Det(m)
    IN  [i \in 1..Len(m) |->
            [j \in 1..Len(m) |->
                LET c == QDiv(Det(Minor(m, j, i)), d)
                IN  IF (i + j) % 2 = 0 THEN c ELSE QNeg(c)]]

\* np.linalg.norm of a 2-D array (Frobenius norm)
Norm(m) == QSqrt(QSum([k \in 1..Len(Flatten(m)) |-> QMul(Flatten(m)[k], Flatten(m)[k])]))

\* np.round: round half to even
Round(a) ==
    LET f == QFloor(a)
        twice == QSub(QAdd(a, a), QI(2 * f))     \* 2 * (a - f), in [0, 2)
    IN  IF QLt(twice, QI(1)) THEN f
        ELSE IF QLt(QI(1), twice) THEN f + 1
        ELSE IF f % 2 = 0 THEN f ELSE f + 1

(***************************************************************************)
(* Python values.                                                          *)
(***************************************************************************)
None == <<>>                       \* None, and the value of an attribute not yet set
NoException == "none"

Get(kwargs, key, default) == IF key \in DOMAIN kwargs THEN kwargs[key] ELSE default

\* An object whose attributes are all unset (attrs is the set of attributes assigned).
NewObject ==
    [attrs |-> {},
     ele_pos |-> None, pots |-> None, n_ele |-> 0, n_time |-> 0, cv_error |-> None,
     src_type |-> "", sigma |-> None, h |-> None, n_src_init |-> 0,
     ext_x |-> None, ext_y |-> None, lambd |-> None, R_init |-> None,
     xmin |-> None, xmax |-> None, ymin |-> None, ymax |-> None,
     gdx |-> None, gdy |-> None,
     estm_x |-> None, estm_y |-> None, n_estm |-> 0, ngx |-> 0, ngy |-> 0,
     basis |-> "", src_x |-> None, src_y |-> None, R |-> None, dist_max |-> None,
     n_src |-> 0, nsx |-> 0, nsy |-> 0,
     dist_table |-> None, b_pot |-> None, k_pot |-> None,
     b_src |-> None, k_interp_cross |-> None,
     b_interp_pot |-> None, k_interp_pot |-> None]

Assign(s, names) == [s EXCEPT !.attrs = @ \cup names]

(***************************************************************************)
(* Inputs.                                                                 *)
(***************************************************************************)
MaxGrid == 2            \* longest candidate array passed to cross_validate

\* Electrode sites: two opposite corners and the centre of the 10 x 24 box
\* (diagonal 26), so that all distances to the basis sources are rational.
SiteA == <<QI(0), QI(0)>>
SiteB == <<QI(10), QI(24)>>
SiteC == <<QI(5), QI(12)>>

EleDistinct == <<SiteA, SiteB, SiteC>>      \* distinct positions
EleTwinsFirst == <<SiteA, SiteA, SiteB>>    \* a duplicated position; fold 3 trains on the twins
EleTwinsLast == <<SiteB, SiteA, SiteA>>     \* a duplicated position; fold 1 trains on the twins

ElectrodeSets == {EleDistinct, EleTwinsFirst, EleTwinsLast}

\* potentials of n time samples: one recorded sample, the later samples silent
Pots(n) == [e \in 1..3 |-> [t \in 1..n |-> IF t = 1 THEN QI(<<1, -1, 2>>[e]) ELSE Zero]]

PotSets == {Pots(1), Pots(2)}

\* 2 x 2 estimation grid on the corners of [0,10] x [0,24]; sources on the same corners
KwCorners ==
    [xmin |-> QI(0), xmax |-> QI(10), ymin |-> QI(0), ymax |-> QI(24),
     gdx |-> QI(5), gdy |-> QI(12), n_src_init |-> 4, R_init |-> QI(6)]

\* 1 x 1 estimation grid at the centre; sources on the corners through ext_x, ext_y
KwCentre ==
    [src_type |-> "step", lambd |-> QI(1),
     xmin |-> QI(5), xmax |-> QI(15), ymin |-> QI(12), ymax |-> QI(36),
     gdx |-> QI(10), gdy |-> QI(24), ext_x |-> QI(5), ext_y |-> QI(12),
     n_src_init |-> 4, R_init |-> QI(6)]

\* an unregistered basis shape
KwUnknownShape ==
    [src_type |-> "triangle",
     xmin |-> QI(0), xmax |-> QI(10), ymin |-> QI(0), ymax |-> QI(24),
     gdx |-> QI(5), gdy |-> QI(12), n_src_init |-> 4, R_init |-> QI(6)]

KwargsSet == {KwCorners, KwCentre, KwUnknownShape}

\* the constructor calls the caller makes: <<ele_pos, pots, kwargs>>
Constructions ==
    { <<EleDistinct, Pots(1), KwCorners>>,
      <<EleTwinsFirst, Pots(1), KwCorners>>,
      <<EleTwinsLast, Pots(2), KwCentre>>,
      <<EleDistinct, Pots(2), KwCentre>>,
      <<EleDistinct, Pots(1), KwUnknownShape>>,
      <<EleTwinsFirst, Pots(2), KwUnknownShape>> }

\* radii for which dist_max of the 10 x 24 layout is rational (26, 34, 70)
RCands == {Zero, QI(6), QI(32)}
LambdaCands == {Zero, QI(1)}

\* None/empty, or an array of 1..MaxGrid candidates
Arrays(S) == UNION {[1..n -> S] : n \in 0..MaxGrid}

Quantities == {"CSD", "POT", "LFP"}

\* distances looked up directly: small, half-way between buckets, at and beyond
\* dist_max, and far enough for the rounded index to pass 2^16
LookupDists ==
    {Zero, Q(17, 100), Q(51, 100), QI(13), QI(26), QI(34), QI(70), QI(100),
     QI(22304), QI(45920)}

NoCall == [op |-> "none", exc |-> NoException]

(***************************************************************************)
(* Collaborators that are not in src/ (CSD, utility_functions,             *)
(* basis_functions, scipy's dblquad), modelled from their description.     *)
(***************************************************************************)
\* CSD.__init__: the base container of electrode positions and potentials
CSD_init(s, ele_pos, pots) ==
    Assign([s EXCEPT !.ele_pos = ele_pos, !.pots = pots,
                     !.n_ele = Len(ele_pos), !.n_time = NCols(pots),
                     !.cv_error = None],
           {"ele_pos", "pots", "n_ele", "n_time", "cv_error"})

\* basis_functions.basis_2D.keys(): the registered basis shapes
basis_2D_keys == {"gauss", "step", "gauss_lim"}

\* a registered basis shape: non-negative, zero outside radius R, symmetric
\* about its centre (evaluated at point p for a source centred at c)
basis_2D(shape, p, c, R) ==
    LET dx == QSub(p[1], c[1])
        dy == QSub(p[2], c[2])
    IN  IF QLe(QAdd(QMul(dx, dx), QMul(dy, dy)), QMul(R, R)) THEN QI(1) ELSE Zero

\* start + arange(num) * (stop - start)/(num - 1): num points from start to stop
linspace(start, stop, num) ==
    [i \in 1..num |->
        IF num = 1 THEN start
        ELSE QAdd(start, QMul(QI(i - 1), QDiv(QSub(stop, start), QI(num - 1))))]

\* np.mgrid[x0:x1:complex(0, nx), y0:y1:complex(0, ny)]: int(abs(n)) points per axis
mgrid(x0, x1, nx, y0, y1, ny) ==
    LET mesh(xs, ys) ==
            [X |-> [i \in 1..Len(xs) |-> [j \in 1..Len(ys) |-> xs[i]]],
             Y |-> [i \in 1..Len(xs) |-> [j \in 1..Len(ys) |-> ys[j]]]]
    IN  mesh(linspace(x0, x1, QTrunc(QAbs(nx))), linspace(y0, y1, QTrunc(QAbs(ny))))

\* utils.distribute_srcs_2D: a regular nsx x nsy mesh of about n_src_init
\* sources over the estimation grid's bounding box extended by (ext_x, ext_y);
\* the radius returned is the requested R_init
distribute_srcs_2D(X, Y, n_src_init, ext_x, ext_y, R_init) ==
    LET placed(g) == <<g.X, g.Y, R_init>>
        spread(n) ==
            mgrid(QSub(QMinSeq(Flatten(X)), ext_x), QAdd(QMaxSeq(Flatten(X)), ext_x), QI(n),
                  QSub(QMinSeq(Flatten(Y)), ext_y), QAdd(QMaxSeq(Flatten(Y)), ext_y), QI(n))
    IN  placed(spread(ISqrt(n_src_init)))

\* scipy.spatial.distance.cdist(a, b, 'euclidean') of two lists of 2D points
cdist(a, b) ==
    [i \in 1..Len(a) |->
        [j \in 1..Len(b) |->
            LET dx == QSub(a[i][1], b[j][1])
                dy == QSub(a[i][2], b[j][2])
            IN  QSqrt(QAdd(QMul(dx, dx), QMul(dy, dy)))]]

\* np.array((xs.ravel(), ys.ravel())).T : the list of mesh points, row-major
Points(X, Y) == [k \in 1..Len(Flatten(X)) |-> <<Flatten(X)[k], Flatten(Y)[k]>>]

(***************************************************************************)
(* KCSD2D: construction.                                                   *)
(***************************************************************************)
Column(m, c) == [i \in 1..Len(m) |-> m[i][c]]

\* KCSD2D.parameters: the configuration with its defaults
parameters(s, kwargs) ==
    LET xmin == Get(kwargs, "xmin", QMinSeq(Column(s.ele_pos, 1)))
        xmax == Get(kwargs, "xmax", QMaxSeq(Column(s.ele_pos, 1)))
        ymin == Get(kwargs, "ymin", QMinSeq(Column(s.ele_pos, 2)))
        ymax == Get(kwargs, "ymax", QMaxSeq(Column(s.ele_pos, 2)))
    IN  Assign([s EXCEPT !.src_type = Get(kwargs, "src_type", "gauss"),
                         !.sigma = Get(kwargs, "sigma", QI(1)),
                         !.h = Get(kwargs, "h", QI(1)),
                         !.n_src_init = Get(kwargs, "n_src_init", 1000),
                         !.ext_x = Get(kwargs, "ext_x", Zero),
                         !.ext_y = Get(kwargs, "ext_y", Zero),
                         !.lambd = Get(kwargs, "lambd", Zero),
                         !.R_init = Get(kwargs, "R_init", Q(23, 100)),
                         !.xmin = xmin, !.xmax = xmax, !.ymin = ymin, !.ymax = ymax,
                         !.gdx = Get(kwargs, "gdx", QMul(Q(1, 100), QSub(xmax, xmin))),
                         !.gdy = Get(kwargs, "gdy", QMul(Q(1, 100), QSub(ymax, ymin)))],
               {"src_type", "sigma", "h", "n_src_init", "ext_x", "ext_y", "lambd",
                "R_init", "xmin", "xmax", "ymin", "ymax", "gdx", "gdy"})

\* KCSD2D.estimate_at: the mesh of points where the estimation is wanted
estimate_at(s) ==
    LET nx == QDiv(QSub(s.xmax, s.xmin), s.gdx)
        ny == QDiv(QSub(s.ymax, s.ymin), s.gdy)
        assigned(g) ==
            Assign([s EXCEPT !.estm_x = g.X, !.estm_y = g.Y,
                             !.n_estm = NRows(g.X) * NCols(g.X),
                             !.ngx = NRows(g.X), !.ngy = NCols(g.X)],
                   {"estm_x", "estm_y", "n_estm", "ngx", "ngy"})
    IN  assigned(mgrid(s.xmin, s.xmax, nx, s.ymin, s.ymax, ny))

\* dist_max of the basis layout for the current R (place_basis and update_R)
DistMax(s, R) ==
    LET diagonal(Lx, Ly) == QSqrt(QAdd(QMul(Lx, Lx), QMul(Ly, Ly)))
    IN  diagonal(QAdd(QSub(QMaxSeq(Flatten(s.src_x)), QMinSeq(Flatten(s.src_x))), R),
                 QAdd(QSub(QMaxSeq(Flatten(s.src_y)), QMinSeq(Flatten(s.src_y))), R))

\* KCSD2D.place_basis past its check of src_type: the sources are distributed
\* and the layout's sizes and dist_max recorded
place_sources(s) ==
    LET sized(s1) ==
            Assign([s1 EXCEPT !.dist_max = DistMax(s1, s1.R),
                              !.n_src = NRows(s1.src_x) * NCols(s1.src_x),
                              !.nsx = NRows(s1.src_x), !.nsy = NCols(s1.src_x)],
                   {"basis", "src_x", "src_y", "R", "dist_max", "n_src", "nsx", "nsy"})
        placed(d) ==
            sized([s EXCEPT !.basis = s.src_type,
                            !.src_x = d[1], !.src_y = d[2], !.R = d[3]])
    IN  placed(distribute_srcs_2D(s.estm_x, s.estm_y, s.n_src_init,
                                  s.ext_x, s.ext_y, s.R_init))

\* A faulty place_basis that does not check src_type against the registered
\* shapes (sensitivity test of C8).
place_basis_unchecked(s) == [exc |-> NoException, self |-> place_sources(s)]

\* KCSD2D.place_basis: [exc, self]; raises on an unregistered source type
place_basis(s) ==
    IF s.src_type \notin basis_2D_keys
    THEN [exc |-> "Exception", self |-> s]
    ELSE [exc |-> NoException, self |-> place_sources(s)]

(***************************************************************************)
(* KCSD2D: forward model, lookup table, kernels.                           *)
(***************************************************************************)
\* KCSD2D.forward_model: the potential at distance x of a basis source of
\* radius R.  The quadrature (scipy dblquad over the basis shape) is not
\* modelled; its place is taken by a non-negative step profile that decreases
\* with x and widens with R.
forward_model(x, R, h, sigma, src_type) ==
    QMul(QDiv(h, sigma),
         QI(Cardinality({k \in {1, 2, 4} : QLe(x, QMul(QI(k), R))})))

\* KCSD2D.create_lookup: the dense table, bucket i holding the potential at
\* distance (i/dt_len) * dist_max
create_lookup(s, dist_table_density) ==
    LET dt_len == dist_table_density
    IN  Assign([s EXCEPT !.dist_table =
                    [i \in 1..dt_len |->
                        forward_model(QMul(Q(i - 1, dt_len), s.dist_max),
                                      s.R, s.h, s.sigma, s.basis)]],
               {"dist_table"})

\* create_lookup's default dist_table_density
dist_table_density == 100

\* What a build can produce for np.uint16(v) when v >= 2^16: the C conversion of
\* an out-of-range float is undefined; builds either keep the low 16 bits of the
\* integer value or saturate.
CastOutcomes == {"wrap", "saturate"}

\* the conversion is expected to be defined: no outcome is chosen
InRange == "in range"

\* np.uint16(v) of a non-negative integral float v; out of range, the outcome ub
\* of the build (evaluation halts if ub = InRange and v is out of range)
uint16(v, ub) ==
    IF v < 65536 THEN v
    ELSE CASE ub = "wrap" -> v % 65536
           [] ub = "saturate" -> 65535

\* the bucket generated_potential reads for the distance dist (0-based)
lookup_index(s, dist, ub) ==
    LET dt_len == Len(s.dist_table)
        maximum(a, b) == IF a > b THEN a ELSE b
        minimum(a, b) == IF a < b THEN a ELSE b
    IN  maximum(0, minimum(uint16(Round(QDiv(QMul(QI(dt_len), dist), s.dist_max)), ub),
                           dt_len - 1))

\* KCSD2D.generated_potential, elementwise on an array of distances
generated_potential(s, dist, ub) ==
    [i \in 1..NRows(dist) |->
        [j \in 1..NCols(dist) |-> s.dist_table[lookup_index(s, dist[i][j], ub) + 1]]]

\* KCSD2D.update_b_pot
update_b_pot(s) ==
    LET src == Points(s.src_x, s.src_y)
        dists == cdist(src, s.ele_pos)
        assigned(b_pot) ==
            Assign([s EXCEPT !.b_pot = b_pot,
                             !.k_pot = DivideBy(Dot(Transpose(b_pot), b_pot), QI(s.n_src))],
                   {"b_pot", "k_pot"})
    IN  assigned(generated_potential(s, dists, InRange))

\* KCSD2D.update_b_src
update_b_src(s) ==
    LET est == Points(s.estm_x, s.estm_y)
        src == Points(s.src_x, s.src_y)
        assigned(b_src) ==
            Assign([s EXCEPT !.b_src = b_src,
                             !.k_interp_cross = DivideBy(Dot(b_src, s.b_pot), QI(s.n_src))],
                   {"b_src", "k_interp_cross"})
    IN  assigned([p \in 1..s.n_estm |->
                    [i \in 1..s.n_src |-> basis_2D(s.basis, est[p], src[i], s.R)]])

\* KCSD2D.update_b_interp_pot
update_b_interp_pot(s) ==
    LET src_loc == Points(s.src_x, s.src_y)
        est_loc == Points(s.estm_x, s.estm_y)
        dists == cdist(src_loc, est_loc)
        assigned(b_interp_pot) ==
            Assign([s EXCEPT !.b_interp_pot = b_interp_pot,
                             !.k_interp_pot = DivideBy(Dot(b_interp_pot, s.b_pot), QI(s.n_src))],
                   {"b_interp_pot", "k_interp_pot"})
    IN  assigned(Transpose(generated_potential(s, dists, InRange)))

\* KCSD2D.method: lookup table, then kernel, then the cross kernels
method_steps(s) ==
    update_b_interp_pot(update_b_src(update_b_pot(create_lookup(s, dist_table_density))))

\* What method reads of the estimator: everything but the potentials, lambd,
\* cv_error and the attributes it overwrites.
MethodInput(s) ==
    [s EXCEPT !.attrs = {}, !.pots = None, !.n_time = 0, !.lambd = None, !.cv_error = None,
              !.dist_table = None, !.b_pot = None, !.k_pot = None,
              !.b_src = None, !.k_interp_cross = None,
              !.b_interp_pot = None, !.k_interp_pot = None]

\* the estimators on which place_basis has succeeded, and the layouts method can meet
PlacedObjects ==
    {r.self : r \in {rr \in {place_basis(estimate_at(parameters(CSD_init(NewObject, e, p), kw)))
                                 : e \in ElectrodeSets, p \in PotSets, kw \in KwargsSet}
                          : rr.exc = NoException}}

MethodInputs ==
    {MethodInput([b EXCEPT !.R = R, !.dist_max = DistMax([b EXCEPT !.R = R], R)])
        : b \in PlacedObjects, R \in RCands}

\* method_steps, evaluated once per layout
method_table == [inp \in MethodInputs |-> method_steps(inp)]

\* KCSD2D.method: the estimator with the attributes method_steps assigns
method(s) ==
    LET assigned(m) ==
            Assign([s EXCEPT !.dist_table = m.dist_table,
                             !.b_pot = m.b_pot, !.k_pot = m.k_pot,
                             !.b_src = m.b_src, !.k_interp_cross = m.k_interp_cross,
                             !.b_interp_pot = m.b_interp_pot, !.k_interp_pot = m.k_interp_pot],
                   m.attrs)
    IN  assigned(method_table[MethodInput(s)])

\* KCSD2D.__init__: [exc, self]
init(ele_pos, pots, kwargs) ==
    LET finish(r) == IF r.exc # NoException THEN r
                     ELSE [exc |-> NoException, self |-> method(r.self)]
    IN  finish(place_basis(estimate_at(parameters(CSD_init(NewObject, ele_pos, pots), kwargs))))

(***************************************************************************)
(* KCSD2D: the operations on a constructed estimator.                      *)
(***************************************************************************)
\* A faulty update_R that records the new R and dist_max but does not call
\* method (sensitivity test of C11).
update_R_no_rebuild(s, R) ==
    LET s1 == [s EXCEPT !.R = R]
    IN  [s1 EXCEPT !.dist_max = DistMax(s1, s1.R)]

\* KCSD2D.update_R
update_R(s, R) ==
    LET s1 == [s EXCEPT !.R = R]
    IN  method([s1 EXCEPT !.dist_max = DistMax(s1, s1.R)])

\* KCSD2D.update_lambda
update_lambda(s, lambd) == [s EXCEPT !.lambd = lambd]

\* the estimate values assembles from the inverse kernel: an array of shape
\* (ngx, ngy, n_time), kept as its shape and its n_estm x n_time entries
estimation(s, estimation_table, k_inv) ==
    LET beta == Dot(k_inv, s.pots)                       \* column t is beta at time t
    IN  [shape |-> <<s.ngx, s.ngy, s.n_time>>,
         data |-> [p \in 1..s.n_estm |->
                     [t \in 1..s.n_time |->
                         QSum([i \in 1..s.n_ele |->
                                 QMul(estimation_table[p][i], beta[i][t])])]]]

\* A faulty values that catches the failure of the inversion and answers with
\* the estimate of a zero inverse (sensitivity test of C2).
values_swallowing(s, estimate) ==
    LET estimation_table == IF estimate = "CSD" THEN s.k_interp_cross ELSE s.k_interp_pot
        m == PlusScaledIdentity(s.k_pot, s.lambd)
        zeros == [i \in 1..s.n_ele |-> [j \in 1..s.n_ele |-> Zero]]
    IN  [exc |-> NoException, out |-> <<>>,
         val |-> estimation(s, estimation_table, IF IsSingular(m) THEN zeros ELSE Inv(m))]

\* KCSD2D.values: [exc, out, val]; out is what the call prints
values(s, estimate) ==
    LET known == estimate \in {"CSD", "POT"}
        estimation_table == IF estimate = "CSD" THEN s.k_interp_cross ELSE s.k_interp_pot
        out == IF known THEN <<>>
               ELSE <<"Invalid quantity to be measured, pass either CSD or POT">>
        m == PlusScaledIdentity(s.k_pot, s.lambd)
    IN  IF IsSingular(m)
        THEN [exc |-> "LinAlgError", out |-> out, val |-> None]
        ELSE IF ~known /\ s.n_time > 0 /\ s.n_ele > 0
        THEN \* estimation_table was never bound
             [exc |-> "UnboundLocalError", out |-> out, val |-> None]
        ELSE [exc |-> NoException, out |-> out,
              val |-> estimation(s, estimation_table, Inv(m))]

\* the penalty compute_cverror records on a singular training kernel
Sentinel == 10000

\* np.logspace(start, stop, num, base): base ** linspace(start, stop, num),
\* for integral exponent steps
RECURSIVE Pow(_, _)
Pow(b, e) == IF e = 0 THEN QI(1) ELSE IF e > 0 THEN QMul(b, Pow(b, e - 1)) ELSE QDiv(Pow(b, e + 1), b)

logspace(start, stop, num, base) ==
    [i \in 1..num |-> Pow(base, start + (i - 1) * ((stop - start) \div (num - 1)))]

\* The default lambdas of cross_validate, np.logspace(-2, -25, 25, base=10.): a
\* decreasing geometric grid of small positive values.  The model's arithmetic is
\* exact over machine integers, so the grid is kept to two points in base 2.
DefaultLambdas == logspace(-1, -2, 2, QI(2))

\* np.any(a): a is None, empty, or holds only zeros  <=>  not np.any(a)
np_any(a) == \E i \in 1..Len(a) : a[i] # Zero

\* the leave-one-out folds built by cross_validate: <<idx_train, idx_test>>
index_generator(n_ele) ==
    [ii \in 1..n_ele |->
        << [k \in 1..(n_ele - 1) |-> (IF k < ii THEN k ELSE k + 1)], <<ii>> >>]

\* one fold of compute_cverror: the new value of err
cverror_fold(k_pot, pots, lambd, idx_train, idx_test, err) ==
    LET B_train == Ix(k_pot, idx_train, idx_train)
        V_train == [k \in 1..Len(idx_train) |-> pots[idx_train[k]]]
        V_test == [k \in 1..Len(idx_test) |-> pots[idx_test[k]]]
        B_new == PlusScaledIdentity(B_train, lambd)
    IN  IF IsSingular(B_new)
        THEN QI(Sentinel)                                  \* except LinAlgError
        ELSE LET beta_new == Dot(Inv(B_new), V_train)
                 B_test == Ix(k_pot, idx_test, idx_train)
                 residual(V_est) ==
                     [a \in 1..NRows(V_est) |->
                         [b \in 1..NCols(V_est) |-> QSub(V_est[a][b], V_test[a][b])]]
             IN  QAdd(err, Norm(residual(Dot(B_test, beta_new))))

\* the loop of compute_cverror over the folds, from fold k on
RECURSIVE cverror_loop(_, _, _, _, _, _)
cverror_loop(k_pot, pots, lambd, folds, k, err) ==
    IF k > Len(folds) THEN err
    ELSE cverror_loop(k_pot, pots, lambd, folds, k + 1,
                      cverror_fold(k_pot, pots, lambd, folds[k][1], folds[k][2], err))

\* compute_cverror, evaluated once per kernel, potentials, lambda and fold list
cverror_table ==
    [key \in {<<method_table[inp].k_pot, pots, lambd, index_generator(Len(e))>> :
                  inp \in DOMAIN method_table, pots \in PotSets,
                  lambd \in LambdaCands \cup {DefaultLambdas[i] : i \in 1..Len(DefaultLambdas)},
                  e \in ElectrodeSets}
        |-> cverror_loop(key[1], key[2], key[3], key[4], 1, Zero)]

\* KCSD2D.compute_cverror
compute_cverror(s, lambd, folds) == cverror_table[<<s.k_pot, s.pots, lambd, folds>>]

\* the search loop of cross_validate from candidate R_idx on: [self, errs]
RECURSIVE cv_search(_, _, _, _, _, _)
cv_search(s, Rs, lambdas, folds, R_idx, errs) ==
    IF R_idx > Len(Rs) THEN [self |-> s, errs |-> errs]
    ELSE LET row(s1) == [lambd_idx \in 1..Len(lambdas) |->
                            compute_cverror(s1, lambdas[lambd_idx], folds)]
             visit(s1) == cv_search(s1, Rs, lambdas, folds, R_idx + 1, Append(errs, row(s1)))
         IN  visit(update_R(s, Rs[R_idx]))

\* A faulty np.min that takes the largest entry (sensitivity test of C5).
np_max(errs) == QMaxSeq(Flatten(errs))

\* np.min(errs): the least entry of the error grid
np_min(errs) == QMinSeq(Flatten(errs))

\* A faulty selection that lists the matching cells from the last one back
\* (sensitivity test of C1).
where_equal_reversed(errs, m) ==
    LET nc == NCols(errs)
        n == NRows(errs) * nc
        cells == [k \in 1..n |-> << ((n - k) \div nc) + 1, ((n - k) % nc) + 1 >>]
    IN  SelectSeq(cells, LAMBDA c : errs[c[1]][c[2]] = m)

\* np.where(errs == m): the <<row, column>> indices of the cells equal to m,
\* in row-major order
where_equal(errs, m) ==
    LET nc == NCols(errs)
        cells == [k \in 1..(NRows(errs) * nc) |-> << ((k - 1) \div nc) + 1, ((k - 1) % nc) + 1 >>]
    IN  SelectSeq(cells, LAMBDA c : errs[c[1]][c[2]] = m)

\* A faulty end of cross_validate that applies the winning lambda only and
\* leaves R where the search loop left it (sensitivity test of C4).
apply_lambda_only(s, cv_R, cv_lambda) == update_lambda(s, cv_lambda)

\* the end of cross_validate: update_R(cv_R), then update_lambda(cv_lambda)
apply_winner(s, cv_R, cv_lambda) == update_lambda(update_R(s, cv_R), cv_lambda)

\* KCSD2D.cross_validate: [exc, self, val, Rs, lambdas, errs]
cross_validate(s, lambdas_arg, Rs_arg) ==
    LET lambdas == IF ~np_any(lambdas_arg) THEN DefaultLambdas ELSE lambdas_arg
        Rs == IF ~np_any(Rs_arg) THEN <<s.R>> ELSE Rs_arg
        folds == index_generator(s.n_ele)
        settle(s1, errs, cv_R, cv_lambda) ==
            [exc |-> NoException,
             self |-> apply_winner(s1, cv_R, cv_lambda),
             val |-> <<cv_R, cv_lambda>>,
             Rs |-> Rs, lambdas |-> lambdas, errs |-> errs]
        pick(s1, errs, err_idx) ==
            settle(s1, errs, Rs[err_idx[1][1]], lambdas[err_idx[1][2]])
        record(s0, errs, least) ==
            pick([s0 EXCEPT !.cv_error = least], errs, where_equal(errs, least))
        searched(done) == record(done.self, done.errs, np_min(done.errs))
    IN  searched(cv_search(s, Rs, lambdas, folds, 1, <<>>))

(***************************************************************************)
(* The state machine: a caller constructs an estimator and calls it.       *)
(***************************************************************************)
Init ==
    /\ self = NewObject
    /\ handed = FALSE
    /\ ret = NoCall

\* The caller is idle (holds no pending result) when ret = NoCall; every call
\* below runs to completion and leaves its outcome in ret.
Idle == ret = NoCall

\* k = KCSD2D(ele_pos, pots, **kwargs)
Construct ==
    /\ Idle
    /\ ~handed
    /\ \E c \in Constructions :
         \E r \in {init(c[1], c[2], c[3])} :
             /\ self' = r.self
             /\ handed' = (r.exc = NoException)
             /\ ret' = [op |-> "__init__", exc |-> r.exc]

\* k.update_R(R)
UpdateR ==
    /\ Idle
    /\ handed
    /\ \E R \in RCands :
         /\ self' = update_R(self, R)
         /\ ret' = [op |-> "update_R", exc |-> NoException]
    /\ UNCHANGED handed

\* k.update_lambda(lambd)
UpdateLambda ==
    /\ Idle
    /\ handed
    /\ \E lambd \in LambdaCands :
         /\ self' = update_lambda(self, lambd)
         /\ ret' = [op |-> "update_lambda", exc |-> NoException]
    /\ UNCHANGED handed

\* k.values(estimate)
Values ==
    /\ Idle
    /\ handed
    /\ \E estimate \in Quantities :
         \E r \in {values(self, estimate)} :
             ret' = [op |-> "values", exc |-> r.exc, estimate |-> estimate,
                     out |-> r.out, val |-> r.val]
    /\ UNCHANGED <<self, handed>>

\* k.generated_potential(dist)
GeneratedPotential ==
    /\ Idle
    /\ handed
    /\ \E dist \in LookupDists, ub \in CastOutcomes :
         ret' = [op |-> "generated_potential", exc |-> NoException, dist |-> dist,
                 ind |-> lookup_index(self, dist, ub),
                 val |-> generated_potential(self, <<<<dist>>>>, ub)[1][1]]
    /\ UNCHANGED <<self, handed>>

\* k.cross_validate(lambdas, Rs)
CrossValidate ==
    /\ Idle
    /\ handed
    /\ \E lambdas \in Arrays(LambdaCands), Rs \in Arrays(RCands) :
         \E r \in {cross_validate(self, lambdas, Rs)} :
             /\ self' = r.self
             /\ ret' = [op |-> "cross_validate", exc |-> r.exc,
                        lambdas_arg |-> lambdas, Rs_arg |-> Rs,
                        Rs |-> r.Rs, lambdas |-> r.lambdas, errs |-> r.errs,
                        val |-> r.val]
    /\ UNCHANGED handed

\* the caller takes the outcome of the call; an estimator whose construction
\* failed was never handed out and is dropped
Return ==
    /\ ~Idle
    /\ ret' = NoCall
    /\ self' = IF handed THEN self ELSE NewObject
    /\ UNCHANGED handed

Next ==
    \/ Construct
    \/ UpdateR
    \/ UpdateLambda
    \/ Values
    \/ GeneratedPotential
    \/ CrossValidate
    \/ Return

Spec == Init /\ [][Next]_vars

(***************************************************************************)
(* Properties.  Each is stated on the outcome a completed call leaves in   *)
(* ret and on the estimator the caller holds.                              *)
(***************************************************************************)

\* C1: cross_validate returns the R and the lambda of one and the same cell of
\* the grid of candidates; the error of that cell is the minimum of the grid,
\* and among the cells at the minimum it is the first in row-major order
\* (outer loop over Rs, inner loop over lambdas).
C1_FirstMinimalCell ==
    ret.op = "cross_validate" =>
        \E i \in 1..Len(ret.Rs), j \in 1..Len(ret.lambdas) :
            /\ ret.val[1] = ret.Rs[i]
            /\ ret.val[2] = ret.lambdas[j]
            /\ \A a \in 1..Len(ret.Rs), b \in 1..Len(ret.lambdas) :
                 /\ QLe(ret.errs[i][j], ret.errs[a][b])
                 /\ ret.errs[a][b] = ret.errs[i][j] => (a > i \/ (a = i /\ b >= j))

\* a search in which two cells with different lambdas share the minimum, and
\* the pair of the earlier one is returned
C1_TieReached ==
    /\ ret.op = "cross_validate"
    /\ \E i \in 1..Len(ret.Rs), j \in 1..Len(ret.lambdas), b \in 1..Len(ret.lambdas) :
         /\ j < b
         /\ ret.lambdas[j] # ret.lambdas[b]
         /\ ret.errs[i][j] = ret.errs[i][b]
         /\ \A c \in 1..Len(ret.Rs), d \in 1..Len(ret.lambdas) :
              /\ QLe(ret.errs[i][j], ret.errs[c][d])
              /\ (c < i => ret.errs[c][d] # ret.errs[i][j])
         /\ ret.val = <<ret.Rs[i], ret.lambdas[j]>>

\* C2: values called while k_pot + lambd*I is singular (in particular with two
\* electrodes at one position and lambd = 0) ends with the singular-matrix
\* error of the inversion and returns no field.
C2_SingularKernelSurfaces ==
    ret.op = "values" =>
        /\ IsSingular(PlusScaledIdentity(self.k_pot, self.lambd))
             => (ret.exc = "LinAlgError" /\ ret.val = None)
        /\ (self.lambd = Zero /\ \E i, j \in 1..self.n_ele : i < j /\ self.ele_pos[i] = self.ele_pos[j])
             => (ret.exc = "LinAlgError" /\ ret.val = None)

\* values("CSD") on an estimator with two electrodes at one position and lambd = 0
C2_TwinsReached ==
    /\ ret.op = "values"
    /\ ret.estimate = "CSD"
    /\ self.lambd = Zero
    /\ self.ele_pos[1] = self.ele_pos[2]
    /\ ret.exc = "LinAlgError"

\* C3: values called with a tag other than CSD or POT fails, in every state of
\* the estimator, with an invalid-quantity error and returns no field.
C3_InvalidQuantityRejected ==
    (ret.op = "values" /\ ret.estimate \notin {"CSD", "POT"}) =>
        (ret.exc = "InvalidQuantityError" /\ ret.val = None)

\* values("LFP") on an estimator whose kernel is singular: the failure the
\* caller sees is the one of the inversion
C3_InvalidTagOnSingularKernel ==
    /\ ret.op = "values"
    /\ ret.estimate = "LFP"
    /\ ret.out # <<>>
    /\ ret.exc = "LinAlgError"

\* C4: when cross_validate returns, the estimator's R and lambd are the
\* returned ones, whichever candidate R the search visited last.
C4_WinnerIsActive ==
    ret.op = "cross_validate" => (self.R = ret.val[1] /\ self.lambd = ret.val[2])

\* a search over two different Rs won by the first: the last R visited is not
\* the one returned
C4_WinnerNotLastVisited ==
    /\ ret.op = "cross_validate"
    /\ Len(ret.Rs) = 2
    /\ ret.Rs[1] # ret.Rs[2]
    /\ ret.val[1] = ret.Rs[1]
    /\ self.R = ret.Rs[1]

\* C5 as stated: cross_validate returns a triple whose third component is the
\* minimum of the error grid.
C5_ReturnsTriple ==
    ret.op = "cross_validate" => (Len(ret.val) = 3 /\ ret.val[3] = np_min(ret.errs))

\* C5, amended: cross_validate returns the pair (R, lambda); the minimum of the
\* error grid, which is the error of the returned pair, is left in self.cv_error.
C5_ReturnsPairRecordsError ==
    ret.op = "cross_validate" =>
        /\ Len(ret.val) = 2
        /\ \A a \in 1..Len(ret.Rs), b \in 1..Len(ret.lambdas) :
             QLe(self.cv_error, ret.errs[a][b])
        /\ \E i \in 1..Len(ret.Rs), j \in 1..Len(ret.lambdas) :
             /\ ret.val = <<ret.Rs[i], ret.lambdas[j]>>
             /\ ret.errs[i][j] = self.cv_error

\* a search whose grid holds errors above the recorded minimum
C5_MinimumBelowOtherCells ==
    /\ ret.op = "cross_validate"
    /\ self.cv_error # None
    /\ \E a \in 1..Len(ret.Rs), b \in 1..Len(ret.lambdas) :
         /\ ret.errs[a][b] # self.cv_error
         /\ QLe(self.cv_error, ret.errs[a][b])

\* C6: generated_potential reads, for every distance d >= 0, the bucket
\* min(round(dt_len * d / dist_max), dt_len - 1): bucket 0 for d = 0 and the last
\* bucket for every d at or beyond dist_max.
C6_LookupClamps ==
    ret.op = "generated_potential" =>
        /\ ret.ind \in 0..(Len(self.dist_table) - 1)
        /\ ret.dist = Zero => ret.ind = 0
        /\ QLe(self.dist_max, ret.dist) => ret.ind = Len(self.dist_table) - 1
        /\ \E r \in {Round(QDiv(QMul(QI(Len(self.dist_table)), ret.dist), self.dist_max))} :
             ret.ind = IF r < Len(self.dist_table) - 1 THEN r ELSE Len(self.dist_table) - 1
        /\ ret.val = self.dist_table[ret.ind + 1]

\* a distance far beyond dist_max whose rounded index, past 2^16, comes back as
\* a bucket inside the table
C6_WrappedBucket ==
    /\ ret.op = "generated_potential"
    /\ QLe(self.dist_max, ret.dist)
    /\ ret.ind < Len(self.dist_table) - 1

\* C7: the estimation grid has (xmax - xmin)/gdx + 1 points along x and
\* (ymax - ymin)/gdy + 1 along y, gdx and gdy apart, and values returns an
\* array of shape (ngx, ngy, n_time).
C7_GridIsIntervalsPlusOne ==
    handed =>
        /\ QI(self.ngx) = QAdd(QDiv(QSub(self.xmax, self.xmin), self.gdx), QI(1))
        /\ QI(self.ngy) = QAdd(QDiv(QSub(self.ymax, self.ymin), self.gdy), QI(1))
        /\ \A i \in 1..(self.ngx - 1) :
             QSub(self.estm_x[i + 1][1], self.estm_x[i][1]) = self.gdx
        /\ \A j \in 1..(self.ngy - 1) :
             QSub(self.estm_y[1][j + 1], self.estm_y[1][j]) = self.gdy
        /\ (ret.op = "values" /\ ret.exc = NoException)
             => ret.val.shape = <<self.ngx, self.ngy, self.n_time>>

\* an estimate on a grid of two intervals per axis: two points per axis, not three
C7_TwoIntervalsTwoPoints ==
    /\ ret.op = "values"
    /\ ret.exc = NoException
    /\ QDiv(QSub(self.xmax, self.xmin), self.gdx) = QI(2)
    /\ QDiv(QSub(self.ymax, self.ymin), self.gdy) = QI(2)
    /\ ret.val.shape = <<2, 2, self.n_time>>

\* C8: a construction whose src_type is no registered basis shape raises at
\* place_basis: nothing is handed to the caller, and no sources, lookup table or
\* kernel have been built.
C8_UnknownShapeStopsConstruction ==
    /\ handed => self.src_type \in basis_2D_keys
    /\ (ret.op = "__init__" /\ self.src_type \notin basis_2D_keys) =>
         /\ ret.exc = "Exception"
         /\ ~handed
         /\ self.attrs \cap {"basis", "src_x", "src_y", "R", "dist_max", "n_src", "nsx", "nsy",
                             "dist_table", "b_pot", "k_pot", "b_src", "k_interp_cross",
                             "b_interp_pot", "k_interp_pot"} = {}
         /\ self.src_x = None /\ self.src_y = None /\ self.dist_table = None
         /\ self.b_pot = None /\ self.k_pot = None /\ self.b_src = None
         /\ self.k_interp_cross = None /\ self.b_interp_pot = None /\ self.k_interp_pot = None

\* a construction with an unregistered src_type that has raised after the
\* estimation grid was built
C8_RaisedAfterGrid ==
    /\ ret.op = "__init__"
    /\ ret.exc = "Exception"
    /\ self.src_type = "triangle"
    /\ "estm_x" \in self.attrs

\* C9: the error cross_validate records for a cell is the sum, over the n_ele
\* leave-one-out folds, of the fold's contribution: the norm of predicted minus
\* actual where the training kernel is invertible, the penalty 10000 where it
\* is singular.
C9_ErrorIsSumOverFolds ==
    ret.op = "cross_validate" =>
        \A i \in 1..Len(ret.Rs), j \in 1..Len(ret.lambdas) :
            ret.errs[i][j] =
                QSum([k \in 1..self.n_ele |->
                        cverror_fold(update_R(self, ret.Rs[i]).k_pot, self.pots, ret.lambdas[j],
                                     index_generator(self.n_ele)[k][1],
                                     index_generator(self.n_ele)[k][2], Zero)])

\* a cell recorded as exactly the penalty although its first fold, whose
\* training kernel is invertible, contributed a positive error
C9_PenaltyAlone ==
    /\ ret.op = "cross_validate"
    /\ \E i \in 1..Len(ret.Rs), j \in 1..Len(ret.lambdas) :
         /\ ret.errs[i][j] = QI(Sentinel)
         /\ \E c \in {cverror_fold(update_R(self, ret.Rs[i]).k_pot, self.pots, ret.lambdas[j],
                                   index_generator(self.n_ele)[1][1],
                                   index_generator(self.n_ele)[1][2], Zero)} :
              c # QI(Sentinel) /\ QLt(Zero, c)

\* C10: the default grids are used only for an argument left unspecified; a
\* supplied non-empty array, all zeros included, is searched as given, so the
\* returned lambda and R are elements of the supplied arrays.
C10_SuppliedGridsAreSearched ==
    ret.op = "cross_validate" =>
        /\ ret.lambdas_arg = None => ret.lambdas = DefaultLambdas
        /\ ret.Rs_arg = None => Len(ret.Rs) = 1
        /\ ret.lambdas_arg # None =>
             /\ ret.lambdas = ret.lambdas_arg
             /\ \E j \in 1..Len(ret.lambdas_arg) : ret.val[2] = ret.lambdas_arg[j]
        /\ ret.Rs_arg # None =>
             /\ ret.Rs = ret.Rs_arg
             /\ \E i \in 1..Len(ret.Rs_arg) : ret.val[1] = ret.Rs_arg[i]

\* cross_validate(lambdas = [0]): the default lambdas were searched and a
\* lambda that was not supplied is returned
C10_ZeroLambdaReplaced ==
    /\ ret.op = "cross_validate"
    /\ ret.lambdas_arg = <<Zero>>
    /\ ret.lambdas = DefaultLambdas
    /\ ret.val[2] # Zero

\* C11: whenever a call has completed on a constructed estimator, dist_max is
\* the one of the basis layout and the current R, and the lookup table, b_pot,
\* k_pot and the cross kernels are those a full rebuild (table, then b_pot and
\* k_pot, then the kernels that use b_pot) gives for the current R; update_lambda
\* and values leave all of them as they were, and no call changes the electrode
\* positions, the potentials or the estimation grid.
C11_DerivedStateFresh ==
    /\ [](handed =>
            /\ self.dist_max = DistMax(self, self.R)
            /\ \E m \in {method_steps(self)} :
                 /\ self.dist_table = m.dist_table
                 /\ self.b_pot = m.b_pot /\ self.k_pot = m.k_pot
                 /\ self.b_src = m.b_src /\ self.k_interp_cross = m.k_interp_cross
                 /\ self.b_interp_pot = m.b_interp_pot /\ self.k_interp_pot = m.k_interp_pot)
    /\ [][(handed /\ ret'.op \in {"update_lambda", "values"}) =>
            /\ self'.R = self.R /\ self'.dist_max = self.dist_max
            /\ self'.dist_table = self.dist_table
            /\ self'.b_pot = self.b_pot /\ self'.k_pot = self.k_pot
            /\ self'.b_src = self.b_src /\ self'.k_interp_cross = self.k_interp_cross
            /\ self'.b_interp_pot = self.b_interp_pot
            /\ self'.k_interp_pot = self.k_interp_pot]_vars
    /\ [][handed =>
            /\ self'.ele_pos = self.ele_pos /\ self'.pots = self.pots
            /\ self'.estm_x = self.estm_x /\ self'.estm_y = self.estm_y
            /\ self'.src_x = self.src_x /\ self'.src_y = self.src_y]_vars

\* update_R has completed with a radius other than the one of the construction,
\* and the lookup table differs from the one built for the construction's radius
C11_RadiusChanged ==
    /\ ret.op = "update_R"
    /\ self.R = QI(32)
    /\ self.R # self.R_init
    /\ self.dist_max = QI(70)
    /\ self.dist_table # create_lookup([self EXCEPT !.R = self.R_init,
                                              !.dist_max = DistMax(self, self.R_init)],
                                       dist_table_density).dist_table

====
